---------------------------- MODULE Spec2Model ----------------------------
(***************************************************************************)
(* Civic Exchange Protocol (civic-exchange-protocol), Rust crates          *)
(* cep-snfei (generator.rs), cep-core (attestation.rs) and cep-entity      *)
(* (identifiers.rs).                                                       *)
(*                                                                         *)
(* A Rust &str / String is a sequence of characters; a character is a      *)
(* one-character TLA+ string, except the two-byte characters, which are    *)
(* written by their code point ("U+00E9").  str::len is the UTF-8 byte     *)
(* length, so it is the sum of the characters' byte widths.                *)
(* Option<T> is a sequence of at most one value.                           *)
(***************************************************************************)
EXTENDS Integers, Sequences, FiniteSets, TLC

VARIABLES
    args,       \* generator: the arguments the caller passes
    call,       \* generator: the function last called on args
    result,     \* generator: what the last call returned
    att,        \* attestation: the Attestation value being built
    attOp,      \* attestation: the operation that produced att
    ids,        \* identifiers: the EntityIdentifiers value being built
    idOp        \* identifiers: the operation that produced ids

vars == <<args, call, result, att, attOp, ids, idOp>>
genVars == <<args, call, result>>
attVars == <<att, attOp>>
idVars == <<ids, idOp>>

\* Option<T>: None, or Some(x) holding one value
None == <<>>
Some(x) == <<x>>
Unwrap(o) == o[1]

(***************************************************************************)
(* Characters and strings                                                  *)
(***************************************************************************)

\* str::repeat
RECURSIVE Repeat(_, _)
Repeat(s, n) == IF n = 0 THEN <<>> ELSE s \o Repeat(s, n - 1)

UpperChars ==
    <<"A", "B", "C", "D", "E", "F", "G", "H", "I", "J", "K", "L", "M",
      "N", "O", "P", "Q", "R", "S", "T", "U", "V", "W", "X", "Y", "Z">>

LowerChars ==
    <<"a", "b", "c", "d", "e", "f", "g", "h", "i", "j", "k", "l", "m",
      "n", "o", "p", "q", "r", "s", "t", "u", "v", "w", "x", "y", "z">>

DigitChars == <<"0", "1", "2", "3", "4", "5", "6", "7", "8", "9">>

SeqRange(s) == {s[i] : i \in 1..Len(s)}

IndexOf(c, s) == CHOOSE i \in 1..Len(s) : s[i] = c

\* char::is_ascii_uppercase, is_ascii_lowercase, is_ascii_digit, ...
UpperSet == SeqRange(UpperChars)
LowerSet == SeqRange(LowerChars)
DigitSet == SeqRange(DigitChars)
IsAsciiUppercase(c) == c \in UpperSet
IsAsciiLowercase(c) == c \in LowerSet
IsAsciiDigit(c) == c \in DigitSet
IsAsciiAlphanumeric(c) ==
    IsAsciiUppercase(c) \/ IsAsciiLowercase(c) \/ IsAsciiDigit(c)
IsAsciiHexdigit(c) ==
    \/ IsAsciiDigit(c)
    \/ c \in {"a", "b", "c", "d", "e", "f", "A", "B", "C", "D", "E", "F"}

\* char::is_whitespace, on the characters of the model
IsWhitespace(c) == c \in {" ", "\t"}

\* The UTF-8 encoding of a character: one byte for ASCII, two for the
\* characters written by code point.
Utf8(c) ==
    IF IsAsciiDigit(c) THEN <<47 + IndexOf(c, DigitChars)>>
    ELSE IF IsAsciiUppercase(c) THEN <<64 + IndexOf(c, UpperChars)>>
    ELSE IF IsAsciiLowercase(c) THEN <<96 + IndexOf(c, LowerChars)>>
    ELSE CASE c = "\t" -> <<9>>
           [] c = " " -> <<32>>
           [] c = "-" -> <<45>>
           [] c = "." -> <<46>>
           [] c = ":" -> <<58>>
           [] c = "|" -> <<124>>
           [] c = "U+00C9" -> <<195, 137>>
           [] c = "U+00E9" -> <<195, 169>>

\* char::len_utf8
LenUtf8(c) == Len(Utf8(c))

\* str::len: the length in bytes
RECURSIVE StrLen(_)
StrLen(s) == IF s = <<>> THEN 0 ELSE LenUtf8(Head(s)) + StrLen(Tail(s))

\* str::as_bytes
RECURSIVE AsBytes(_)
AsBytes(s) == IF s = <<>> THEN <<>> ELSE Utf8(Head(s)) \o AsBytes(Tail(s))

\* Ord for str and String: lexicographic on the bytes
RECURSIVE BytesLess(_, _)
BytesLess(x, y) ==
    IF y = <<>> THEN FALSE
    ELSE IF x = <<>> THEN TRUE
    ELSE IF Head(x) # Head(y) THEN Head(x) < Head(y)
    ELSE BytesLess(Tail(x), Tail(y))

StrLess(s, t) == BytesLess(AsBytes(s), AsBytes(t))

\* char::to_lowercase / to_uppercase (Unicode aware)
CharToLower(c) ==
    IF IsAsciiUppercase(c) THEN LowerChars[IndexOf(c, UpperChars)]
    ELSE IF c = "U+00C9" THEN "U+00E9"
    ELSE c

CharToUpper(c) ==
    IF IsAsciiLowercase(c) THEN UpperChars[IndexOf(c, LowerChars)]
    ELSE IF c = "U+00E9" THEN "U+00C9"
    ELSE c

\* str::to_lowercase / to_uppercase
ToLowercase(s) == [i \in 1..Len(s) |-> CharToLower(s[i])]
ToUppercase(s) == [i \in 1..Len(s) |-> CharToUpper(s[i])]

\* str::split_whitespace: the maximal runs of non-whitespace characters
RECURSIVE SplitWs(_, _, _)
SplitWs(s, cur, acc) ==
    IF s = <<>>
    THEN IF cur = <<>> THEN acc ELSE Append(acc, cur)
    ELSE IF IsWhitespace(Head(s))
         THEN SplitWs(Tail(s), <<>>, IF cur = <<>> THEN acc ELSE Append(acc, cur))
         ELSE SplitWs(Tail(s), Append(cur, Head(s)), acc)

SplitWhitespace(s) == SplitWs(s, <<>>, <<>>)

\* [..].join(sep)
RECURSIVE Join(_, _)
Join(parts, sep) ==
    IF parts = <<>> THEN <<>>
    ELSE IF Len(parts) = 1 THEN parts[1]
    ELSE parts[1] \o sep \o Join(Tail(parts), sep)

\* the number of occurrences of character c in s
RECURSIVE CountChar(_, _)
CountChar(c, s) ==
    IF s = <<>> THEN 0
    ELSE (IF Head(s) = c THEN 1 ELSE 0) + CountChar(c, Tail(s))

(***************************************************************************)
(* The Normalizing Functor (cep-snfei normalizer: spec section 4.2)        *)
(***************************************************************************)

\* Legal name and address: trim, collapse whitespace runs to one space,
\* fold to one case.
NormalizeText(s) == ToLowercase(Join(SplitWhitespace(s), <<" ">>))

\* CanonicalInput from raw attributes; absent optionals are empty segments.
build_canonical_input(legal_name, country_code, address, registration_date) ==
    [legal_name_normalized |-> NormalizeText(legal_name),
     address_normalized |->
        IF address = None THEN <<>> ELSE NormalizeText(Unwrap(address)),
     country_code |-> ToUppercase(country_code),
     registration_date |->
        IF registration_date = None THEN <<>>
        ELSE Unwrap(registration_date)]

\* CanonicalInput::to_hash_string: the four segments joined by pipes
to_hash_string(canonical) ==
    Join(<<canonical.legal_name_normalized,
           canonical.address_normalized,
           canonical.country_code,
           canonical.registration_date>>, <<"|">>)

(***************************************************************************)
(* SHA-256: a digest is determined by its pre-image, and distinct          *)
(* pre-images have distinct digests (collision resistance).                *)
(***************************************************************************)
Sha256(bytes) == [sha256 |-> bytes]

\* compute_snfei: the Snfei whose value is the lowercase hex of the digest
compute_snfei(canonical) == [value |-> Sha256(to_hash_string(canonical))]

\* generate_snfei that drops the address before normalizing
generate_snfei_NoAddress(legal_name, country_code, address, registration_date) ==
    LET canonical ==
            build_canonical_input(legal_name, country_code, None,
                                  registration_date)
    IN  [snfei |-> compute_snfei(canonical), canonical |-> canonical]

\* generate_snfei: (Snfei, CanonicalInput)
generate_snfei(legal_name, country_code, address, registration_date) ==
    LET canonical ==
            build_canonical_input(legal_name, country_code, address,
                                  registration_date)
    IN  [snfei |-> compute_snfei(canonical), canonical |-> canonical]


(***************************************************************************)
(* f64.  Every f64 this code computes is a multiple of 2^-56 in [1/16, 2): *)
(* it is held exactly as <<hi, lo>>, standing for (hi * 2^28 + lo) * 2^-56 *)
(* with 0 <= lo < 2^28.  An addition is the exact sum rounded to 53        *)
(* significant bits, ties to even (IEEE 754 round-to-nearest-even).        *)
(***************************************************************************)
Limb == 268435456     \* 2^28

\* The f64 literals of generate_snfei_with_confidence
F64_1_0 == <<268435456, 0>>              \* 1.0   0x1.0000000000000p+0
F64_0_95 == <<255013683, 53687088>>      \* 0.95  0x1.e666666666666p-1
F64_0_5 == <<134217728, 0>>              \* 0.5   0x1.0000000000000p-1
F64_0_2 == <<53687091, 53687092>>        \* 0.2   0x1.999999999999ap-3
F64_0_1 == <<26843545, 161061274>>       \* 0.1   0x1.999999999999ap-4
F64_0_9 == <<241591910, 107374184>>      \* 0.9   0x1.ccccccccccccdp-1

\* The spacing of f64 values (one unit in the last place, in units of
\* 2^-56) in the binade that holds a value with high limb hi.
Ulp(hi) ==
    IF hi >= Limb THEN 16
    ELSE IF hi >= Limb \div 2 THEN 8
    ELSE IF hi >= Limb \div 4 THEN 4
    ELSE IF hi >= Limb \div 8 THEN 2
    ELSE 1

\* Round an exact value to the nearest f64, ties to the even mantissa.
F64Round(hi, lo) ==
    LET u == Ulp(hi)
        r == lo % u
        down == lo - r
        up == IF 2 * r > u THEN TRUE
              ELSE IF 2 * r < u THEN FALSE
              ELSE (down \div u) % 2 = 1
        lo2 == IF up THEN down + u ELSE down
    IN  IF lo2 >= Limb THEN <<hi + 1, lo2 - Limb>> ELSE <<hi, lo2>>

\* f64 + f64
F64Add(a, b) ==
    LET lo == a[2] + b[2]
        hi == a[1] + b[1] + (lo \div Limb)
    IN  F64Round(hi, lo % Limb)

\* f64 <= f64 and f64::min
F64Le(a, b) == a[1] < b[1] \/ (a[1] = b[1] /\ a[2] <= b[2])
F64Min(a, b) == IF F64Le(a, b) THEN a ELSE b

(***************************************************************************)
(* generate_snfei_with_confidence                                          *)
(***************************************************************************)

\* "legal_name", "country_code", ... : the names pushed on fields_used
BaseFields == <<"legal_name", "country_code">>

\* Vec::push in place of Vec::insert(0, x)
Insert0_Push(v, x) == Append(v, x)

\* Vec::insert(0, x)
Insert0(v, x) == <<x>> \o v

\* The tier-3 confidence without the final cap
Tier3Confidence_NoCap(address, registration_date, canonical) ==
    LET c0 == F64_0_5
        c1 == IF address # None THEN F64Add(c0, F64_0_2) ELSE c0
        c2 == IF registration_date # None THEN F64Add(c1, F64_0_2) ELSE c1
        word_count == Len(SplitWhitespace(canonical.legal_name_normalized))
    IN  IF word_count > 3 THEN F64Add(c2, F64_0_1) ELSE c2

\* The tier-3 confidence, as the code accumulates it.
Tier3Confidence(address, registration_date, canonical) ==
    LET c0 == F64_0_5
        c1 == IF address # None THEN F64Add(c0, F64_0_2) ELSE c0
        c2 == IF registration_date # None THEN F64Add(c1, F64_0_2) ELSE c1
        word_count == Len(SplitWhitespace(canonical.legal_name_normalized))
        c3 == IF word_count > 3 THEN F64Add(c2, F64_0_1) ELSE c2
    IN  F64Min(c3, F64_0_9)

\* The tier-3 fields_used, as the code pushes it.
Tier3Fields(address, registration_date) ==
    LET f1 == IF address # None THEN Append(BaseFields, "address")
              ELSE BaseFields
    IN  IF registration_date # None THEN Append(f1, "registration_date")
        ELSE f1

\* The SAM UEI test placed before the LEI test
generate_snfei_with_confidence_UeiFirst(legal_name, country_code, address, registration_date, lei, sam_uei) ==
    LET canonical ==
            build_canonical_input(legal_name, country_code, address,
                                  registration_date)
        snfei == compute_snfei(canonical)
    IN  IF sam_uei # None /\ StrLen(Unwrap(sam_uei)) = 12
        THEN [snfei |-> snfei, canonical |-> canonical,
              confidence_score |-> F64_0_95, tier |-> 2,
              fields_used |-> Insert0(BaseFields, "sam_uei")]
        ELSE IF lei # None /\ StrLen(Unwrap(lei)) = 20
        THEN [snfei |-> snfei, canonical |-> canonical,
              confidence_score |-> F64_1_0, tier |-> 1,
              fields_used |-> Insert0(BaseFields, "lei")]
        ELSE [snfei |-> snfei, canonical |-> canonical,
              confidence_score |->
                  Tier3Confidence(address, registration_date, canonical),
              tier |-> 3,
              fields_used |-> Tier3Fields(address, registration_date)]

\* Tiers 1 and 2 hashing the name and country only
generate_snfei_with_confidence_IdOnly(legal_name, country_code, address, registration_date, lei, sam_uei) ==
    LET canonical ==
            build_canonical_input(legal_name, country_code, address,
                                  registration_date)
        bare == build_canonical_input(legal_name, country_code, None, None)
    IN  IF lei # None /\ StrLen(Unwrap(lei)) = 20
        THEN [snfei |-> compute_snfei(bare), canonical |-> bare,
              confidence_score |-> F64_1_0, tier |-> 1,
              fields_used |-> Insert0(BaseFields, "lei")]
        ELSE IF sam_uei # None /\ StrLen(Unwrap(sam_uei)) = 12
        THEN [snfei |-> compute_snfei(bare), canonical |-> bare,
              confidence_score |-> F64_0_95, tier |-> 2,
              fields_used |-> Insert0(BaseFields, "sam_uei")]
        ELSE [snfei |-> compute_snfei(canonical), canonical |-> canonical,
              confidence_score |->
                  Tier3Confidence(address, registration_date, canonical),
              tier |-> 3,
              fields_used |-> Tier3Fields(address, registration_date)]

\* Every tier builds the canonical input from the same four arguments and
\* hashes it (lines 209-211, 226-228, 241-242); the tier decides the rest.
generate_snfei_with_confidence(legal_name, country_code, address, registration_date, lei, sam_uei) ==
    LET canonical ==
            build_canonical_input(legal_name, country_code, address,
                                  registration_date)
        snfei == compute_snfei(canonical)
    IN  IF lei # None /\ StrLen(Unwrap(lei)) = 20
        THEN [snfei |-> snfei, canonical |-> canonical,
              confidence_score |-> F64_1_0, tier |-> 1,
              fields_used |-> Insert0(BaseFields, "lei")]
        ELSE IF sam_uei # None /\ StrLen(Unwrap(sam_uei)) = 12
        THEN [snfei |-> snfei, canonical |-> canonical,
              confidence_score |-> F64_0_95, tier |-> 2,
              fields_used |-> Insert0(BaseFields, "sam_uei")]
        ELSE [snfei |-> snfei, canonical |-> canonical,
              confidence_score |->
                  Tier3Confidence(address, registration_date, canonical),
              tier |-> 3,
              fields_used |-> Tier3Fields(address, registration_date)]

(***************************************************************************)
(* BTreeMap<String, String>: a function from its keys to their values;     *)
(* iteration is in ascending key order.                                    *)
(***************************************************************************)
BTreeMap_new == [k \in {} |-> <<>>]

BTreeMap_insert(map, key, value) ==
    [k \in DOMAIN map \cup {key} |-> IF k = key THEN value ELSE map[k]]

BTreeMap_contains_key(map, key) == key \in DOMAIN map

RECURSIVE Ascending(_)
Ascending(keys) ==
    IF keys = {} THEN <<>>
    ELSE LET least == CHOOSE k \in keys :
                          \A other \in keys \ {k} : StrLess(k, other)
         IN  <<least>> \o Ascending(keys \ {least})

\* BTreeMap::keys, collected
BTreeMap_keys(map) == Ascending(DOMAIN map)

(***************************************************************************)
(* cep-core canonical helpers (canonical.rs: spec sections 2 and 4.1)      *)
(***************************************************************************)

\* A required field is always inserted.
insert_required(map, key, value) == BTreeMap_insert(map, key, value)

\* An optional field is inserted unless it is absent or empty.
insert_if_present(map, key, value) ==
    IF value # None /\ Unwrap(value) # <<>>
    THEN BTreeMap_insert(map, key, Unwrap(value))
    ELSE map

(***************************************************************************)
(* cep-core attestation.rs                                                 *)
(***************************************************************************)
ProofPurposes == {"AssertionMethod", "Authentication", "CapabilityDelegation"}

\* ProofPurpose::as_str
ProofPurpose_as_str(purpose) ==
    CASE purpose = "AssertionMethod" ->
            <<"a", "s", "s", "e", "r", "t", "i", "o", "n",
              "M", "e", "t", "h", "o", "d">>
      [] purpose = "Authentication" ->
            <<"a", "u", "t", "h", "e", "n", "t", "i", "c", "a", "t", "i",
              "o", "n">>
      [] purpose = "CapabilityDelegation" ->
            <<"c", "a", "p", "a", "b", "i", "l", "i", "t", "y",
              "D", "e", "l", "e", "g", "a", "t", "i", "o", "n">>

\* impl Default for ProofPurpose
ProofPurpose_default == "AssertionMethod"

\* CanonicalTimestamp::to_canonical_string (timestamp.rs): the timestamp's
\* canonical text
CanonicalTimestamp_to_canonical_string(timestamp) == timestamp.canonical

\* Attestation::new
Attestation_new(attestor_id, attestation_timestamp, proof_type, proof_value, verification_method_uri) ==
    [attestor_id |-> attestor_id,
     attestation_timestamp |-> attestation_timestamp,
     proof_type |-> proof_type,
     proof_value |-> proof_value,
     verification_method_uri |-> verification_method_uri,
     proof_purpose |-> ProofPurpose_default,
     anchor_uri |-> None]

\* with_purpose that also forgets the anchor
Attestation_with_purpose_DropAnchor(self, purpose) ==
    [self EXCEPT !.proof_purpose = purpose, !.anchor_uri = None]

\* Attestation::with_purpose
Attestation_with_purpose(self, purpose) ==
    [self EXCEPT !.proof_purpose = purpose]

\* Attestation::with_anchor
Attestation_with_anchor(self, uri) == [self EXCEPT !.anchor_uri = Some(uri)]

\* The canonical field names of an Attestation
K_anchorUri == <<"a", "n", "c", "h", "o", "r", "U", "r", "i">>
K_attestationTimestamp ==
    <<"a", "t", "t", "e", "s", "t", "a", "t", "i", "o", "n",
      "T", "i", "m", "e", "s", "t", "a", "m", "p">>
K_attestorId == <<"a", "t", "t", "e", "s", "t", "o", "r", "I", "d">>
K_proofPurpose ==
    <<"p", "r", "o", "o", "f", "P", "u", "r", "p", "o", "s", "e">>
K_proofType == <<"p", "r", "o", "o", "f", "T", "y", "p", "e">>
K_proofValue == <<"p", "r", "o", "o", "f", "V", "a", "l", "u", "e">>
K_verificationMethodUri ==
    <<"v", "e", "r", "i", "f", "i", "c", "a", "t", "i", "o", "n",
      "M", "e", "t", "h", "o", "d", "U", "r", "i">>

\* canonical_fields with the anchor inserted under the key "proofAnchor"
Attestation_canonical_fields_AnchorKey(self) ==
    LET m1 == insert_if_present(BTreeMap_new,
                                K_proofValue \o <<"A", "n", "c", "h", "o", "r">>,
                                self.anchor_uri)
        m2 == insert_required(m1, K_attestationTimestamp,
                  CanonicalTimestamp_to_canonical_string(
                      self.attestation_timestamp))
        m3 == insert_required(m2, K_attestorId, self.attestor_id)
        m4 == insert_required(m3, K_proofPurpose,
                              ProofPurpose_as_str(self.proof_purpose))
        m5 == insert_required(m4, K_proofType, self.proof_type)
        m6 == insert_required(m5, K_proofValue, self.proof_value)
    IN  insert_required(m6, K_verificationMethodUri,
                        self.verification_method_uri)

\* impl Canonicalize for Attestation: canonical_fields
Attestation_canonical_fields(self) ==
    LET m1 == insert_if_present(BTreeMap_new, K_anchorUri, self.anchor_uri)
        m2 == insert_required(m1, K_attestationTimestamp,
                  CanonicalTimestamp_to_canonical_string(
                      self.attestation_timestamp))
        m3 == insert_required(m2, K_attestorId, self.attestor_id)
        m4 == insert_required(m3, K_proofPurpose,
                              ProofPurpose_as_str(self.proof_purpose))
        m5 == insert_required(m4, K_proofType, self.proof_type)
        m6 == insert_required(m5, K_proofValue, self.proof_value)
    IN  insert_required(m6, K_verificationMethodUri,
                        self.verification_method_uri)

(***************************************************************************)
(* cep-entity identifiers.rs.  SamUei, Lei, Snfei and CanadianBn wrap a    *)
(* String: a value of these types is the string it wraps.                  *)
(***************************************************************************)
IsUpperOrDigit(c) == IsAsciiUppercase(c) \/ IsAsciiDigit(c)

\* SamUei::new
SamUei_new(value) ==
    IF StrLen(value) = 12 /\ (\A i \in 1..Len(value) : IsUpperOrDigit(value[i]))
    THEN Some(value) ELSE None

\* Lei::new
Lei_new(value) ==
    IF StrLen(value) = 20 /\ (\A i \in 1..Len(value) : IsAsciiAlphanumeric(value[i]))
    THEN Some(ToUppercase(value)) ELSE None

\* Snfei::from_hash (cep-entity)
EntitySnfei_from_hash(hash) ==
    IF StrLen(hash) = 64 /\ (\A i \in 1..Len(hash) : IsAsciiHexdigit(hash[i]))
    THEN Some(ToLowercase(hash)) ELSE None

\* A panic of the calling thread, in place of a returned value
Panic == <<"panic", "byte index is not a char boundary">>

\* str::is_char_boundary: mid bytes are a whole number of characters
IsCharBoundary(s, mid) ==
    \E k \in 0..Len(s) : StrLen(SubSeq(s, 1, k)) = mid

\* str::split_at, at a char boundary
SplitAt(s, mid) ==
    LET k == CHOOSE k \in 0..Len(s) : StrLen(SubSeq(s, 1, k)) = mid
    IN  <<SubSeq(s, 1, k), SubSeq(s, k + 1, Len(s))>>

\* CanadianBn::new: split_at panics when the byte index is inside a character
CanadianBn_new(value) ==
    IF StrLen(value) # 15 THEN None
    ELSE IF ~IsCharBoundary(value, 9) THEN Panic
    ELSE LET digits1 == SplitAt(value, 9)[1]
             rest == SplitAt(value, 9)[2]
         IN  IF ~IsCharBoundary(rest, 2) THEN Panic
             ELSE LET letters == SplitAt(rest, 2)[1]
                      digits2 == SplitAt(rest, 2)[2]
                  IN  IF /\ \A i \in 1..Len(digits1) : IsAsciiDigit(digits1[i])
                         /\ \A i \in 1..Len(letters) :
                               IsAsciiUppercase(letters[i])
                         /\ \A i \in 1..Len(digits2) : IsAsciiDigit(digits2[i])
                      THEN Some(value)
                      ELSE None

\* EntityIdentifiers::new (Default): every slot absent
EntityIdentifiers_new ==
    [sam_uei |-> None, lei |-> None, snfei |-> None, canadian_bn |-> None,
     additional_schemes |-> None]

\* EntityIdentifiers::with_sam_uei, with_lei, with_snfei
with_sam_uei(self, uei) == [self EXCEPT !.sam_uei = Some(uei)]
with_lei(self, lei) == [self EXCEPT !.lei = Some(lei)]
with_snfei(self, snfei) == [self EXCEPT !.snfei = Some(snfei)]

\* EntityIdentifiers::has_any
has_any(self) ==
    \/ self.sam_uei # None
    \/ self.lei # None
    \/ self.snfei # None
    \/ self.canadian_bn # None
    \/ (IF self.additional_schemes = None THEN FALSE
        ELSE Unwrap(self.additional_schemes) # <<>>)

\* "cep-entity:" and the scheme prefixes of primary_identifier
CepEntity == <<"c", "e", "p", "-", "e", "n", "t", "i", "t", "y", ":">>
PrefixLei == CepEntity \o <<"l", "e", "i", ":">>
PrefixSamUei == CepEntity \o <<"s", "a", "m", "-", "u", "e", "i", ":">>
PrefixSnfei == CepEntity \o <<"s", "n", "f", "e", "i", ":">>
PrefixCanadianBn ==
    CepEntity \o <<"c", "a", "n", "a", "d", "i", "a", "n", "-", "b", "n", ":">>

\* primary_identifier testing the SAM UEI before the LEI
primary_identifier_UeiFirst(self) ==
    IF self.sam_uei # None THEN Some(PrefixSamUei \o Unwrap(self.sam_uei))
    ELSE IF self.lei # None THEN Some(PrefixLei \o Unwrap(self.lei))
    ELSE IF self.snfei # None THEN Some(PrefixSnfei \o Unwrap(self.snfei))
    ELSE IF self.canadian_bn # None
    THEN Some(PrefixCanadianBn \o Unwrap(self.canadian_bn))
    ELSE None

\* EntityIdentifiers::primary_identifier
primary_identifier(self) ==
    IF self.lei # None THEN Some(PrefixLei \o Unwrap(self.lei))
    ELSE IF self.sam_uei # None
    THEN Some(PrefixSamUei \o Unwrap(self.sam_uei))
    ELSE IF self.snfei # None THEN Some(PrefixSnfei \o Unwrap(self.snfei))
    ELSE IF self.canadian_bn # None
    THEN Some(PrefixCanadianBn \o Unwrap(self.canadian_bn))
    ELSE None

(***************************************************************************)
(* The callers of the generator: the arguments they pass                   *)
(***************************************************************************)
MaxWords == 5

Word == <<"A", "b">>

\* Legal names of 0..MaxWords words, separated by a space, by a run of
\* whitespace, or by the '|' character.
LegalNames ==
    {Join([i \in 1..k |-> Word], sep) :
        k \in 0..MaxWords, sep \in {<<" ">>, <<" ", "\t">>, <<"|">>}}

CountryCodes == {<<"U", "S">>, <<"c", "a">>}

Addresses ==
    {None, Some(<<>>), Some(<<" ">>),
     Some(<<"1", "2", " ", "E", "l", "m", " ", "S", "t">>),
     Some(<<"E", "l", "m", "|", "S", "t">>)}

RegistrationDates ==
    {None, Some(<<>>),
     Some(<<"2", "0", "2", "0", "-", "0", "1", "-", "0", "1">>)}

\* LEI arguments: absent; 19, 20 and 21 ASCII characters; 10 two-byte
\* characters (20 bytes); 20 characters of which one has two bytes (21 bytes).
Leis ==
    {None} \cup {Some(Repeat(<<"7">>, n)) : n \in 19..21}
    \cup {Some(Repeat(<<"U+00E9">>, 10)),
          Some(Repeat(<<"7">>, 19) \o <<"U+00E9">>)}

\* SAM UEI arguments: absent; 11, 12 and 13 ASCII characters; 6 two-byte
\* characters (12 bytes).
SamUeis ==
    {None} \cup {Some(Repeat(<<"K">>, n)) : n \in 11..13}
    \cup {Some(Repeat(<<"U+00E9">>, 6))}

NoResult == [tier |-> 0]

\* The arguments are chosen by the caller; a call applies the function to them.
GenInit ==
    /\ args \in [legal_name : LegalNames, country_code : CountryCodes,
                 address : Addresses, registration_date : RegistrationDates,
                 lei : Leis, sam_uei : SamUeis]
    /\ call = "none"
    /\ result = NoResult

\* generate_snfei(legal_name, country_code, address, registration_date)
GenerateSnfei ==
    /\ call' = "generate_snfei"
    /\ result' = generate_snfei(args.legal_name, args.country_code,
                                args.address, args.registration_date)
    /\ UNCHANGED <<args, attVars, idVars>>

\* generate_snfei_with_confidence(legal_name, country_code, address,
\*                                registration_date, lei, sam_uei)
GenerateSnfeiWithConfidence ==
    /\ call' = "generate_snfei_with_confidence"
    /\ result' = generate_snfei_with_confidence(
                     args.legal_name, args.country_code, args.address,
                     args.registration_date, args.lei, args.sam_uei)
    /\ UNCHANGED <<args, attVars, idVars>>

NotBuilt == <<>>

Init ==
    /\ GenInit
    /\ att = NotBuilt /\ attOp = "none"
    /\ ids = NotBuilt /\ idOp = "none"

Next == GenerateSnfei \/ GenerateSnfeiWithConfidence

\* The SNFEI generator and its callers
Spec == Init /\ [][Next]_vars

(***************************************************************************)
(* Properties of the SNFEI generator                                       *)
(***************************************************************************)
Plain == call = "generate_snfei"
Conf == call = "generate_snfei_with_confidence"

InFields(name) == name \in SeqRange(result.fields_used)

\* The tier and score the precedence rule assigns, given whether the lei
\* and the sam_uei are present with the expected length.
Precedence(leiOk, ueiOk) ==
    /\ leiOk => result.tier = 1 /\ result.confidence_score = F64_1_0
    /\ ~leiOk /\ ueiOk => result.tier = 2 /\ result.confidence_score = F64_0_95
    /\ ~leiOk /\ ~ueiOk => result.tier = 3

\* C1, as stated: first match wins, a lei of exactly 20 characters gives
\* tier 1 and 1.0 whatever the other arguments are, else a sam_uei of exactly
\* 12 characters gives tier 2 and 0.95, else tier 3; lengths in characters.
C1_PrecedenceByCharacters ==
    Conf => Precedence(args.lei # None /\ Len(Unwrap(args.lei)) = 20,
                       args.sam_uei # None /\ Len(Unwrap(args.sam_uei)) = 12)

\* C1, amended: the same precedence with the lengths measured in UTF-8 bytes
\* (str::len): a lei of exactly 20 bytes gives tier 1 and 1.0 whatever the
\* other arguments are, else a sam_uei of exactly 12 bytes gives tier 2 and
\* 0.95, else tier 3; a lei of another byte length does not prevent tier 2.
C1_PrecedenceByBytes ==
    Conf => Precedence(args.lei # None /\ StrLen(Unwrap(args.lei)) = 20,
                       args.sam_uei # None
                           /\ StrLen(Unwrap(args.sam_uei)) = 12)

\* A 20-byte lei together with a 12-byte sam_uei: tier 1.
C1_Witness ==
    /\ Conf
    /\ args.lei # None /\ StrLen(Unwrap(args.lei)) = 20
    /\ args.sam_uei # None /\ StrLen(Unwrap(args.sam_uei)) = 12
    /\ result.tier = 1

F64_0_0 == <<0, 0>>
F64_0_7 == <<187904819, 53687088>>       \* 0.7   0x1.6666666666666p-1
Bonus(present, x) == IF present THEN x ELSE F64_0_0
LongName == Len(SplitWhitespace(NormalizeText(args.legal_name))) > 3

\* C2: a tier-3 score is min(0.5 + 0.2*[address] + 0.2*[registration_date]
\* + 0.1*[more than 3 words in the normalized name], 0.9), in f64; it lies in
\* [0.5, 0.9], is 0.5 with no bonus, 0.7 with the address bonus only, and is
\* 0.9 when all three bonuses apply.
C2_Tier3Confidence ==
    Conf /\ result.tier = 3 =>
        LET a == args.address # None
            d == args.registration_date # None
            raw == F64Add(F64Add(F64Add(F64_0_5, Bonus(a, F64_0_2)),
                                 Bonus(d, F64_0_2)),
                          Bonus(LongName, F64_0_1))
            score == result.confidence_score
        IN  /\ score = F64Min(raw, F64_0_9)
            /\ F64Le(F64_0_5, score) /\ F64Le(score, F64_0_9)
            /\ ~a /\ ~d /\ ~LongName => score = F64_0_5
            /\ a /\ ~d /\ ~LongName => score = F64_0_7
            /\ a /\ d /\ LongName => score = F64_0_9

\* A tier-3 result with all three bonuses: capped at 0.9.
C2_Witness ==
    /\ Conf /\ result.tier = 3
    /\ args.address # None /\ args.registration_date # None /\ LongName
    /\ result.confidence_score = F64_0_9

NoDuplicates(s) == \A i, j \in 1..Len(s) : s[i] = s[j] => i = j

C4_FieldsUsedComplete ==
    Conf =>
        /\ args.address # None => InFields("address")
        /\ args.registration_date # None => InFields("registration_date")

\* C5: the SNFEI and the canonical input of generate_snfei_with_confidence
\* are those generate_snfei returns for the same legal_name, country_code,
\* address and registration_date, whatever lei and sam_uei are (so any two
\* calls that agree on the four return the same SNFEI and canonical input).
C5_SnfeiIgnoresIdentifiers ==
    Conf =>
        LET plain == generate_snfei(args.legal_name, args.country_code,
                                    args.address, args.registration_date)
        IN  /\ result.snfei = plain.snfei
            /\ result.canonical = plain.canonical

\* A tier-1 call with an address: the address is hashed all the same.
C5_Witness ==
    /\ Conf /\ result.tier = 1
    /\ args.address # None /\ result.canonical.address_normalized # <<>>

WithoutAddress ==
    generate_snfei(args.legal_name, args.country_code, None,
                   args.registration_date)

WithoutDate ==
    generate_snfei(args.legal_name, args.country_code, args.address, None)

\* C7, as stated: every supplied address, and every supplied registration
\* date, changes the SNFEI generate_snfei returns.
C7_AnyAttributeChangesSnfei ==
    Plain =>
        /\ args.address # None => result.snfei # WithoutAddress.snfei
        /\ args.registration_date # None => result.snfei # WithoutDate.snfei

\* C7, amended: a supplied address whose normalized form is not empty, and a
\* supplied registration date that is not empty, changes the SNFEI
\* generate_snfei returns; an address that is empty or all whitespace, and an
\* empty date, give the SNFEI of the call without it.
C7_NonEmptyAttributeChangesSnfei ==
    Plain =>
        /\ args.address # None =>
              (result.snfei # WithoutAddress.snfei
                  <=> NormalizeText(Unwrap(args.address)) # <<>>)
        /\ args.registration_date # None =>
              (result.snfei # WithoutDate.snfei
                  <=> Unwrap(args.registration_date) # <<>>)

\* A call with a non-blank address, whose SNFEI differs from the one without.
C7_Witness ==
    /\ Plain
    /\ args.address # None /\ NormalizeText(Unwrap(args.address)) # <<>>
    /\ result.snfei # WithoutAddress.snfei

(***************************************************************************)
(* The builders of an Attestation                                          *)
(***************************************************************************)
AttestorIds == {<<"n", "1">>, <<"n", "2">>}
Timestamps ==
    {[canonical |-> <<"2", "0", "2", "5", "-", "1", "1", "-", "2", "8">>],
     [canonical |-> <<"2", "0", "2", "5", "-", "1", "1", "-", "2", "9">>]}
ProofTypes == {<<"E", "d">>, <<"E", "c">>}
ProofValues == {<<"z", "3">>, <<"z", "4">>}
VerificationMethodUris == {<<"d", "i", "d", ":", "1">>, <<"d", "i", "d", ":", "2">>}
AnchorUris == {<<>>, <<"t", "x", ":", "1">>, <<"t", "x", ":", "2">>}

\* Attestation::new(...)
AttInit ==
    /\ att \in {Attestation_new(a, t, p, v, u) :
                   a \in AttestorIds, t \in Timestamps, p \in ProofTypes,
                   v \in ProofValues, u \in VerificationMethodUris}
    /\ attOp = "new"
    /\ args = NotBuilt /\ call = "none" /\ result = NoResult
    /\ ids = NotBuilt /\ idOp = "none"

\* att.with_purpose(purpose)
WithPurpose(purpose) ==
    /\ att' = Attestation_with_purpose(att, purpose)
    /\ attOp' = "with_purpose"
    /\ UNCHANGED <<genVars, idVars>>

\* att.with_anchor(uri)
WithAnchor(uri) ==
    /\ att' = Attestation_with_anchor(att, uri)
    /\ attOp' = "with_anchor"
    /\ UNCHANGED <<genVars, idVars>>

AttNext ==
    \/ \E purpose \in ProofPurposes : WithPurpose(purpose)
    \/ \E uri \in AnchorUris : WithAnchor(uri)

\* An Attestation and the builder calls made on it
AttSpec == AttInit /\ [][AttNext]_vars

(***************************************************************************)
(* Properties of the Attestation                                           *)
(***************************************************************************)
SixKeys ==
    <<K_attestationTimestamp, K_attestorId, K_proofPurpose, K_proofType,
      K_proofValue, K_verificationMethodUri>>

SevenKeys == <<K_anchorUri>> \o SixKeys

StrictlyAscending(keys) ==
    \A i \in 1..(Len(keys) - 1) : StrLess(keys[i], keys[i + 1])

\* The keys are in byte-lexicographic order and among the seven names.
SortedAmongSeven(keys) ==
    StrictlyAscending(keys) /\ SeqRange(keys) \subseteq SeqRange(SevenKeys)

\* C8, as stated: the keys are in byte-lexicographic order and among the
\* seven names; they are the six required names when no anchor URI is set and
\* anchorUri followed by the six once with_anchor has set one.
C8_AnchorKeyWheneverSet ==
    LET keys == BTreeMap_keys(Attestation_canonical_fields(att))
    IN  /\ SortedAmongSeven(keys)
        /\ att.anchor_uri = None => keys = SixKeys
        /\ att.anchor_uri # None => keys = SevenKeys

\* The canonical fields of an Attestation, by the state of its anchor URI
C8_FieldsNow ==
    LET fields == Attestation_canonical_fields(att)
        keys == BTreeMap_keys(fields)
    IN  /\ SortedAmongSeven(keys)
        /\ att.anchor_uri = None => keys = SixKeys
        /\ att.anchor_uri = Some(<<>>) => keys = SixKeys
        /\ att.anchor_uri # None /\ att.anchor_uri # Some(<<>>) =>
              /\ keys = SevenKeys
              /\ fields[K_anchorUri] = Unwrap(att.anchor_uri)
        /\ BTreeMap_contains_key(fields, K_anchorUri) => att.anchor_uri # None

\* with_anchor leaves the six required keys with the values they had
C8_AnchorStep ==
    attOp' = "with_anchor" =>
        LET before == Attestation_canonical_fields(att)
            after == Attestation_canonical_fields(att')
        IN  \A k \in SeqRange(SixKeys) :
                /\ BTreeMap_contains_key(before, k)
                /\ BTreeMap_contains_key(after, k)
                /\ after[k] = before[k]

\* C8, amended: the keys are in byte-lexicographic order and among the seven
\* names; they are the six required names when the anchor URI is absent or
\* the empty string, and anchorUri (with the URI as its value) followed by
\* the six when a non-empty anchor URI is set; with_anchor leaves the six
\* keys and their values unchanged; anchorUri is present only when an anchor
\* URI is set.
C8_AnchorKeyWhenNonEmpty == [](C8_FieldsNow) /\ [][C8_AnchorStep]_vars

\* After with_anchor of a non-empty URI: seven keys, anchorUri first.
C8_Witness ==
    /\ attOp = "with_anchor"
    /\ att.anchor_uri # None /\ Unwrap(att.anchor_uri) # <<>>
    /\ BTreeMap_keys(Attestation_canonical_fields(att)) = SevenKeys

RequiredFields ==
    {"attestor_id", "attestation_timestamp", "proof_type", "proof_value",
     "verification_method_uri"}

AllFields == RequiredFields \cup {"proof_purpose", "anchor_uri"}

\* The fields of the Attestation a step leaves as they were
SameExcept(changed) == \A f \in AllFields \ changed : att'[f] = att[f]

C9_Step ==
    /\ attOp' = "with_purpose" => SameExcept({"proof_purpose"})
    /\ attOp' = "with_anchor" =>
          SameExcept({"anchor_uri"}) /\ att'.anchor_uri # None
    /\ \A f \in RequiredFields : att'[f] = att[f]

C9_New ==
    attOp = "new" =>
        att.proof_purpose = "AssertionMethod" /\ att.anchor_uri = None

\* C9: with_purpose changes only proof_purpose and with_anchor changes only
\* anchor_uri; the five required fields given to Attestation::new are the
\* same after any sequence of with_* calls; Attestation::new yields
\* proof_purpose = AssertionMethod and no anchor_uri.
C9_BuilderFrame == [](C9_New) /\ [][C9_Step]_vars

\* An Attestation with an anchor on which with_purpose has just set another
\* purpose.
C9_Witness ==
    /\ attOp = "with_purpose"
    /\ att.proof_purpose = "CapabilityDelegation"
    /\ att.anchor_uri # None

(***************************************************************************)
(* The builders of an EntityIdentifiers                                    *)
(***************************************************************************)

\* The values the identifier constructors accept
SamUeiValues ==
    {Unwrap(SamUei_new(v)) :
        v \in {Repeat(<<"J", "6">>, 6), Repeat(<<"K">>, 12)}}

LeiValues ==
    {Unwrap(Lei_new(v)) : v \in {Repeat(<<"7">>, 20), Repeat(<<"a", "9">>, 10)}}

SnfeiValues ==
    {Unwrap(EntitySnfei_from_hash(v)) :
        v \in {Repeat(<<"a">>, 64), Repeat(<<"0", "F">>, 32)}}

\* Canadian Business Numbers: 9 digits, 2 uppercase letters, 4 digits
CanadianBnValues ==
    {Unwrap(CanadianBn_new(
         Repeat(<<d>>, 9) \o <<"R", "C">> \o Repeat(<<"0">>, 3) \o <<"1">>)) :
        d \in {"1", "8"}}

SchemeA == [scheme_uri |-> <<"a">>, value |-> <<"1">>]
SchemeB == [scheme_uri |-> <<"b">>, value |-> <<"2">>]

\* A second entry under the scheme URI of SchemeA
SchemeA2 == [scheme_uri |-> <<"a">>, value |-> <<"2">>]

AdditionalSchemeLists ==
    {None, Some(<<>>), Some(<<SchemeA>>), Some(<<SchemeB, SchemeA>>),
     Some(<<SchemeA, SchemeB>>), Some(<<SchemeA, SchemeA2>>),
     Some(<<SchemeA2, SchemeB, SchemeA>>)}

\* EntityIdentifiers::new()
IdInit ==
    /\ ids = EntityIdentifiers_new
    /\ idOp = "new"
    /\ args = NotBuilt /\ call = "none" /\ result = NoResult
    /\ att = NotBuilt /\ attOp = "none"

\* ids.with_sam_uei(uei)
WithSamUei(uei) ==
    /\ ids' = with_sam_uei(ids, uei)
    /\ idOp' = "with_sam_uei"
    /\ UNCHANGED <<genVars, attVars>>

\* ids.with_lei(lei)
WithLei(lei) ==
    /\ ids' = with_lei(ids, lei)
    /\ idOp' = "with_lei"
    /\ UNCHANGED <<genVars, attVars>>

\* ids.with_snfei(snfei)
WithSnfei(snfei) ==
    /\ ids' = with_snfei(ids, snfei)
    /\ idOp' = "with_snfei"
    /\ UNCHANGED <<genVars, attVars>>

\* ids.canadian_bn = Some(bn): the field is public and has no builder
SetCanadianBn(bn) ==
    /\ ids' = [ids EXCEPT !.canadian_bn = Some(bn)]
    /\ idOp' = "canadian_bn"
    /\ UNCHANGED <<genVars, attVars>>

\* ids.additional_schemes = schemes: the field is public and has no builder
SetAdditionalSchemes(schemes) ==
    /\ ids' = [ids EXCEPT !.additional_schemes = schemes]
    /\ idOp' = "additional_schemes"
    /\ UNCHANGED <<genVars, attVars>>

IdNext ==
    \/ \E uei \in SamUeiValues : WithSamUei(uei)
    \/ \E lei \in LeiValues : WithLei(lei)
    \/ \E snfei \in SnfeiValues : WithSnfei(snfei)
    \/ \E bn \in CanadianBnValues : SetCanadianBn(bn)
    \/ \E schemes \in AdditionalSchemeLists : SetAdditionalSchemes(schemes)

\* An EntityIdentifiers and the calls that fill it
IdSpec == IdInit /\ [][IdNext]_vars

(***************************************************************************)
(* Properties of EntityIdentifiers                                         *)
(***************************************************************************)

\* C10: primary_identifier is "cep-entity:<scheme>:<value>" of the first slot
\* set in the order lei, sam_uei, snfei, canadian_bn, whatever the lower
\* slots hold and whichever builder ran last; it is absent exactly when the
\* four slots are absent, also when additional_schemes is non-empty and
\* has_any is therefore true.
C10_PrimaryPrecedence ==
    LET primary == primary_identifier(ids)
        noSlot ==
            /\ ids.lei = None /\ ids.sam_uei = None
            /\ ids.snfei = None /\ ids.canadian_bn = None
    IN  /\ ids.lei # None => primary = Some(PrefixLei \o Unwrap(ids.lei))
        /\ ids.lei = None /\ ids.sam_uei # None =>
              primary = Some(PrefixSamUei \o Unwrap(ids.sam_uei))
        /\ ids.lei = None /\ ids.sam_uei = None /\ ids.snfei # None =>
              primary = Some(PrefixSnfei \o Unwrap(ids.snfei))
        /\ /\ ids.lei = None /\ ids.sam_uei = None /\ ids.snfei = None
           /\ ids.canadian_bn # None
           => primary = Some(PrefixCanadianBn \o Unwrap(ids.canadian_bn))
        /\ primary = None <=> noSlot
        /\ /\ noSlot
           /\ ids.additional_schemes # None
           /\ ids.additional_schemes # Some(<<>>)
           => has_any(ids) /\ primary = None

\* All four slots set, the SAM UEI last: the LEI is still the primary one.
C10_Witness ==
    /\ idOp = "with_sam_uei"
    /\ ids.lei # None /\ ids.snfei # None /\ ids.canadian_bn # None
    /\ primary_identifier(ids) = Some(PrefixLei \o Unwrap(ids.lei))

\* Only additional_schemes is non-empty: has_any, and no primary identifier.
C10_OnlyAdditionalSchemes ==
    /\ ids.lei = None /\ ids.sam_uei = None
    /\ ids.snfei = None /\ ids.canadian_bn = None
    /\ ids.additional_schemes = Some(<<SchemeB, SchemeA>>)
    /\ has_any(ids) /\ primary_identifier(ids) = None

(***************************************************************************)
(* The identifier constructors, each called on one input string            *)
(***************************************************************************)

\* Snfei::from_hash that stores the string as given
Snfei_from_hash_KeepCase(hash) ==
    IF StrLen(hash) = 64 /\ (\A i \in 1..Len(hash) : IsAsciiHexdigit(hash[i]))
    THEN Some([value |-> hash]) ELSE None

\* Snfei::from_hash (cep-snfei)
Snfei_from_hash(hash) ==
    IF StrLen(hash) = 64 /\ (\A i \in 1..Len(hash) : IsAsciiHexdigit(hash[i]))
    THEN Some([value |-> ToLowercase(hash)]) ELSE None

HexChars == DigitChars \o <<"a", "b", "c", "d", "e", "f">>

\* format!("{:x}", result): two lowercase hex digits for every digest byte
RECURSIVE LowerHex(_)
LowerHex(bytes) ==
    IF bytes = <<>> THEN <<>>
    ELSE <<HexChars[(Head(bytes) \div 16) + 1], HexChars[(Head(bytes) % 16) + 1]>>
         \o LowerHex(Tail(bytes))

\* What a constructor call gives back: a returned Option, or a panic
Returned(out) == [out |-> out]

Digits9 == <<"1", "2", "3", "4", "5", "6", "7", "8", "9">>

\* A 15-byte string whose two-byte character covers bytes 8..10
BnStraddles9 == SubSeq(Digits9, 1, 8) \o <<"U+00E9">> \o <<"R", "C", "0", "0", "1">>

\* A 15-byte string whose two-byte character covers bytes 10..12
BnStraddles11 == Digits9 \o <<"R", "U+00E9">> \o <<"0", "0", "1">>

\* Input strings: well-formed and malformed for each constructor
CtorValues ==
    {<<>>,
     Repeat(<<"K">>, 12), Repeat(<<"J", "6">>, 6), Repeat(<<"k">>, 12),
     Repeat(<<"K">>, 11), Repeat(<<"U+00E9">>, 6),
     Repeat(<<"7">>, 20), Repeat(<<"a", "9">>, 10), Repeat(<<"U+00E9">>, 10),
     Repeat(<<"a">>, 64), Repeat(<<"A">>, 64), Repeat(<<"0", "F">>, 32),
     Repeat(<<"0", "f">>, 32), Repeat(<<"a">>, 63), Repeat(<<"g">>, 64),
     Repeat(<<"U+00E9">>, 32), Repeat(<<"a">>, 62) \o <<"U+00E9">>,
     Digits9 \o <<"R", "C", "0", "0", "0", "1">>,
     Digits9 \o <<"r", "c", "0", "0", "0", "1">>,
     Digits9 \o <<"0", "0", "0", "0", "0", "1">>,
     Digits9 \o <<"U+00E9", "0", "0", "0", "1">>,
     Digits9 \o <<"R", "C", "0", "0", "0">>,
     BnStraddles9, BnStraddles11}

\* SHA-256 outputs: 32 bytes each
Digests ==
    {Repeat(<<0>>, 32), Repeat(<<255>>, 32), Repeat(<<171, 9>>, 16),
     Repeat(<<16, 254, 58, 7>>, 8)}

CtorInit ==
    /\ args \in [value : CtorValues, digest : Digests]
    /\ call = "none"
    /\ result = NoResult
    /\ att = NotBuilt /\ attOp = "none"
    /\ ids = NotBuilt /\ idOp = "none"

\* SamUei::new(value)
CallSamUeiNew ==
    /\ call' = "SamUei::new"
    /\ result' = Returned(SamUei_new(args.value))
    /\ UNCHANGED <<args, attVars, idVars>>

\* Lei::new(value)
CallLeiNew ==
    /\ call' = "Lei::new"
    /\ result' = Returned(Lei_new(args.value))
    /\ UNCHANGED <<args, attVars, idVars>>

\* cep_snfei::Snfei::from_hash(value)
CallSnfeiFromHash ==
    /\ call' = "Snfei::from_hash"
    /\ result' = Returned(Snfei_from_hash(args.value))
    /\ UNCHANGED <<args, attVars, idVars>>

\* cep_entity::Snfei::from_hash(value)
CallEntitySnfeiFromHash ==
    /\ call' = "entity::Snfei::from_hash"
    /\ result' = Returned(EntitySnfei_from_hash(args.value))
    /\ UNCHANGED <<args, attVars, idVars>>

\* CanadianBn::new(value)
CallCanadianBnNew ==
    /\ call' = "CanadianBn::new"
    /\ result' = Returned(CanadianBn_new(args.value))
    /\ UNCHANGED <<args, attVars, idVars>>

\* compute_snfei, from the digest on: Snfei { value: format!("{:x}", result) }
CallComputeSnfei ==
    /\ call' = "compute_snfei"
    /\ result' = Returned(Some([value |-> LowerHex(args.digest)]))
    /\ UNCHANGED <<args, attVars, idVars>>

\* Snfei::from_hash(snfei.value()) on the Snfei the last call returned
CallFromHashOfValue ==
    /\ call \in {"Snfei::from_hash", "compute_snfei"}
    /\ result.out # None
    /\ args' = [args EXCEPT !.value = Unwrap(result.out).value]
    /\ call' = "from_hash(value())"
    /\ result' = Returned(Snfei_from_hash(Unwrap(result.out).value))
    /\ UNCHANGED <<attVars, idVars>>

CtorNext ==
    \/ CallSamUeiNew
    \/ CallLeiNew
    \/ CallSnfeiFromHash
    \/ CallEntitySnfeiFromHash
    \/ CallCanadianBnNew
    \/ CallComputeSnfei
    \/ CallFromHashOfValue

\* One input string and the constructors called on it
CtorSpec == CtorInit /\ [][CtorNext]_vars

(***************************************************************************)
(* Properties of the identifier constructors                               *)
(***************************************************************************)

Called == call # "none"

\* C11: no constructor panics: whatever the input string, SamUei::new,
\* Lei::new, Snfei::from_hash and CanadianBn::new return, also for a
\* 15-byte string with a multi-byte character across byte offset 9 or 11.
C11_ConstructorsNeverPanic == Called => result.out # Panic

\* CanadianBn::new panics exactly on the 15-byte inputs that have no char
\* boundary at byte 9 or at byte 11; every other call returns.
C11_PanicOnlyOffBoundary ==
    Called =>
        (result.out = Panic <=>
            /\ call = "CanadianBn::new"
            /\ StrLen(args.value) = 15
            /\ ~IsCharBoundary(args.value, 9) \/ ~IsCharBoundary(args.value, 11))

\* CanadianBn::new on a 15-byte string with a character across byte 9
C11_PanicAtOffset9 ==
    /\ call = "CanadianBn::new" /\ args.value = BnStraddles9
    /\ result.out = Panic

\* CanadianBn::new on a 15-byte string with a character across byte 11
C11_PanicAtOffset11 ==
    /\ call = "CanadianBn::new" /\ args.value = BnStraddles11
    /\ result.out = Panic

LowerHexSet == SeqRange(HexChars)

\* 64 characters, each one of 0-9 a-f
IsLowerHex64(s) == Len(s) = 64 /\ \A i \in 1..Len(s) : s[i] \in LowerHexSet

\* 64 characters, each one of 0-9 a-f A-F
IsHex64(s) ==
    Len(s) = 64 /\ \A i \in 1..Len(s) : s[i] \in LowerHexSet \cup {"A", "B", "C", "D", "E", "F"}

\* Equal but for the case of ASCII letters
EqIgnoreCase(s, t) ==
    /\ Len(s) = Len(t)
    /\ \A i \in 1..Len(s) :
          \/ s[i] = t[i]
          \/ s[i] \in LowerSet /\ t[i] = UpperChars[IndexOf(s[i], LowerChars)]
          \/ s[i] \in UpperSet /\ t[i] = LowerChars[IndexOf(s[i], UpperChars)]

\* C12: Snfei::from_hash (both crates) accepts a string iff it is 64
\* hexadecimal characters and stores it lowercased; compute_snfei renders
\* the digest as lowercase hex; so every Snfei value is 64 lowercase hex
\* characters, from_hash of two accepted strings gives equal values iff the
\* strings are equal ignoring case, and from_hash of value() gives an equal
\* Snfei.
C12_FromHashLowercase ==
    /\ call = "Snfei::from_hash" =>
          /\ result.out # None <=> IsHex64(args.value)
          /\ result.out # None =>
                /\ IsLowerHex64(Unwrap(result.out).value)
                /\ EqIgnoreCase(Unwrap(result.out).value, args.value)
                /\ \A other \in CtorValues :
                      Snfei_from_hash(other) # None =>
                          (Snfei_from_hash(other) = result.out
                              <=> EqIgnoreCase(other, args.value))
    /\ call = "entity::Snfei::from_hash" =>
          /\ result.out # None <=> IsHex64(args.value)
          /\ result.out # None =>
                /\ IsLowerHex64(Unwrap(result.out))
                /\ EqIgnoreCase(Unwrap(result.out), args.value)
                /\ \A other \in CtorValues :
                      EntitySnfei_from_hash(other) # None =>
                          (EntitySnfei_from_hash(other) = result.out
                              <=> EqIgnoreCase(other, args.value))
    /\ call = "compute_snfei" => IsLowerHex64(Unwrap(result.out).value)
    /\ call = "from_hash(value())" =>
          result.out = Some([value |-> args.value])

\* from_hash of an uppercase spelling returned the lowercase Snfei, which
\* is the Snfei of the lowercase spelling.
C12_Witness ==
    /\ call = "Snfei::from_hash"
    /\ args.value = Repeat(<<"0", "F">>, 32)
    /\ result.out = Some([value |-> Repeat(<<"0", "f">>, 32)])
    /\ result.out = Snfei_from_hash(Repeat(<<"0", "f">>, 32))

\* from_hash applied to the value() of a computed Snfei returned it again.
C12_RoundTrip ==
    /\ call = "from_hash(value())"
    /\ args.value = LowerHex(args.digest)
    /\ result.out = Some([value |-> LowerHex(args.digest)])

(***************************************************************************)
(* EntityIdentifiers::canonical_fields and the Canonicalize operations     *)
(***************************************************************************)

\* serde_json's escape of one character of a string
JsonEscapeChar(c) ==
    IF c = "\"" THEN <<"\\", "\"">>
    ELSE IF c = "\\" THEN <<"\\", "\\">>
    ELSE IF c = "\t" THEN <<"\\", "t">>
    ELSE <<c>>

\* serde_json: a string, quoted and escaped
RECURSIVE JsonEscape(_)
JsonEscape(s) ==
    IF s = <<>> THEN <<>> ELSE JsonEscapeChar(Head(s)) \o JsonEscape(Tail(s))

JsonString(s) == <<"\"">> \o JsonEscape(s) \o <<"\"">>

\* serde_json::to_string of one AdditionalScheme (rename_all = "camelCase")
JsonScheme(scheme) ==
    <<"{">> \o JsonString(<<"s", "c", "h", "e", "m", "e", "U", "r", "i">>)
    \o <<":">> \o JsonString(scheme.scheme_uri) \o <<",">>
    \o JsonString(<<"v", "a", "l", "u", "e">>)
    \o <<":">> \o JsonString(scheme.value) \o <<"}">>

\* serde_json::to_string(&sorted): a JSON array of the entries
JsonSchemes(schemes) ==
    <<"[">> \o Join([i \in 1..Len(schemes) |-> JsonScheme(schemes[i])], <<",">>)
    \o <<"]">>

\* One step of a stable sort: x goes before the first entry whose
\* scheme_uri is greater, so after every entry with an equal scheme_uri.
RECURSIVE InsertByUri(_, _)
InsertByUri(sorted, x) ==
    IF sorted = <<>> THEN <<x>>
    ELSE IF StrLess(x.scheme_uri, Head(sorted).scheme_uri)
         THEN <<x>> \o sorted
         ELSE <<Head(sorted)>> \o InsertByUri(Tail(sorted), x)

RECURSIVE SortFrom(_, _)
SortFrom(schemes, sorted) ==
    IF schemes = <<>> THEN sorted
    ELSE SortFrom(Tail(schemes), InsertByUri(sorted, Head(schemes)))

\* sorted.sort_by(|a, b| a.scheme_uri.cmp(&b.scheme_uri)): stable
SortByUri(schemes) == SortFrom(schemes, <<>>)

K_additionalSchemes ==
    <<"a", "d", "d", "i", "t", "i", "o", "n", "a", "l",
      "S", "c", "h", "e", "m", "e", "s">>
K_canadianBn == <<"c", "a", "n", "a", "d", "i", "a", "n", "B", "n">>
K_lei == <<"l", "e", "i">>
K_samUei == <<"s", "a", "m", "U", "e", "i">>
K_snfei == <<"s", "n", "f", "e", "i">>

\* impl Canonicalize for EntityIdentifiers: canonical_fields
EntityIdentifiers_canonical_fields(self) ==
    LET m0 == IF self.additional_schemes # None
                   /\ Unwrap(self.additional_schemes) # <<>>
              THEN BTreeMap_insert(BTreeMap_new, K_additionalSchemes,
                       JsonSchemes(SortByUri(Unwrap(self.additional_schemes))))
              ELSE BTreeMap_new
        m1 == insert_if_present(m0, K_canadianBn, self.canadian_bn)
        m2 == insert_if_present(m1, K_lei, self.lei)
        m3 == insert_if_present(m2, K_samUei, self.sam_uei)
    IN  insert_if_present(m3, K_snfei, self.snfei)

\* Canonicalize::to_canonical_string: "key":"value" pairs in key order,
\* joined by commas, the values escaped
to_canonical_string(fields) ==
    LET keys == BTreeMap_keys(fields)
    IN  Join([i \in 1..Len(keys) |->
                 <<"\"">> \o keys[i] \o <<"\"">> \o <<":">>
                 \o JsonString(fields[keys[i]])],
             <<",">>)

\* Canonicalize::calculate_hash: SHA-256 of the canonical string
calculate_hash(fields) == Sha256(to_canonical_string(fields))

(***************************************************************************)
(* Properties of EntityIdentifiers::canonical_fields                       *)
(***************************************************************************)

\* The lists that hold the entries of list in some order
Reorderings(list) ==
    {[i \in 1..Len(list) |-> list[f[i]]] : f \in Permutations(1..Len(list))}

Schemes == IF ids.additional_schemes = None THEN <<>> ELSE Unwrap(ids.additional_schemes)

\* C13: canonical_fields does not depend on the order of additional_schemes:
\* an EntityIdentifiers that differs only by a reordering of that list, also
\* one with two entries under the same scheme_uri, has the same canonical
\* field map, canonical string and hash; an absent or empty list gives no
\* additionalSchemes key.
C13_SchemeOrderIndependent ==
    LET fields == EntityIdentifiers_canonical_fields(ids)
    IN  /\ \A list \in Reorderings(Schemes) :
              LET other ==
                      EntityIdentifiers_canonical_fields(
                          [ids EXCEPT !.additional_schemes = Some(list)])
              IN  Schemes # <<>> =>
                      /\ other = fields
                      /\ to_canonical_string(other) = to_canonical_string(fields)
                      /\ calculate_hash(other) = calculate_hash(fields)
        /\ Schemes = <<>> => ~BTreeMap_contains_key(fields, K_additionalSchemes)

\* The same holds of every list whose entries have distinct scheme URIs.
C13_DistinctUrisOrderIndependent ==
    LET fields == EntityIdentifiers_canonical_fields(ids)
        distinct ==
            \A i, j \in 1..Len(Schemes) :
                Schemes[i].scheme_uri = Schemes[j].scheme_uri => i = j
    IN  /\ distinct =>
              \A list \in Reorderings(Schemes) :
                  Schemes # <<>> =>
                      EntityIdentifiers_canonical_fields(
                          [ids EXCEPT !.additional_schemes = Some(list)]) = fields
        /\ Schemes = <<>> => ~BTreeMap_contains_key(fields, K_additionalSchemes)

\* Two entries under one scheme URI: the list as given is what is encoded.
C13_TieKeepsInputOrder ==
    /\ ids.additional_schemes = Some(<<SchemeA2, SchemeB, SchemeA>>)
    /\ ids.lei # None
    /\ EntityIdentifiers_canonical_fields(ids)[K_additionalSchemes]
           = JsonSchemes(<<SchemeA2, SchemeA, SchemeB>>)

(***************************************************************************)
(* The two SNFEI producers, each called on one CanonicalInput              *)
(***************************************************************************)

\* cep_entity::Snfei::generate: SHA-256 of format!("{}|{}", name, jurisdiction)
EntitySnfei_generate(normalized_name, jurisdiction_iso) ==
    Sha256(normalized_name \o <<"|">> \o jurisdiction_iso)

\* Normalized legal names, with and without the delimiter
NormalizedNames == {<<"a">>, <<"a", "|", "b">>, <<"b">>, <<"a", " ", "b">>}

NormalizedAddresses == {<<>>, <<"b">>, <<"b", "|">>, <<"1", " ", "b">>}

NormalizedCountries == {<<"U", "S">>, <<"C", "A">>}

CanonicalDates == {<<>>, <<"2", "0", "2", "0", "-", "0", "1", "-", "0", "1">>}

\* struct CanonicalInput
CanonicalInputs ==
    [legal_name_normalized : NormalizedNames,
     address_normalized : NormalizedAddresses,
     country_code : NormalizedCountries,
     registration_date : CanonicalDates]

HashInit ==
    /\ args \in CanonicalInputs
    /\ call = "none"
    /\ result = NoResult
    /\ att = NotBuilt /\ attOp = "none"
    /\ ids = NotBuilt /\ idOp = "none"

\* canonical.to_hash_string()
HashToHashString ==
    /\ call' = "to_hash_string"
    /\ result' = Returned(to_hash_string(args))
    /\ UNCHANGED <<args, attVars, idVars>>

\* compute_snfei(&canonical)
HashComputeSnfei ==
    /\ call' = "compute_snfei"
    /\ result' = Returned(compute_snfei(args))
    /\ UNCHANGED <<args, attVars, idVars>>

\* cep_entity::Snfei::generate(name, country)
HashSnfeiGenerate ==
    /\ call' = "Snfei::generate"
    /\ result' = Returned(EntitySnfei_generate(args.legal_name_normalized,
                                               args.country_code))
    /\ UNCHANGED <<args, attVars, idVars>>

HashNext ==
    \/ HashToHashString
    \/ HashComputeSnfei
    \/ HashSnfeiGenerate

\* One CanonicalInput and the hash functions called on it
HashSpec == HashInit /\ [][HashNext]_vars

(***************************************************************************)
(* Properties of the SNFEI pre-image                                       *)
(***************************************************************************)

\* The CanonicalInput of a name and a country alone
NameAndCountry(name, country) ==
    [legal_name_normalized |-> name, address_normalized |-> <<>>,
     country_code |-> country, registration_date |-> <<>>]

\* C14: the two SNFEI producers agree: Snfei::generate(n, c) of cep-entity
\* is the identifier compute_snfei gives for the CanonicalInput with name n,
\* country c, and empty address and date (four pipe-delimited segments).
C14_ProducersAgree ==
    call = "Snfei::generate" =>
        result.out =
            compute_snfei(NameAndCountry(args.legal_name_normalized,
                                         args.country_code)).value

\* Snfei::generate hashes "name|country"; compute_snfei hashes
\* "name||country|": the pre-images differ for every name and country.
C14_ProducersNeverAgree ==
    call = "Snfei::generate" =>
        /\ result.out =
              Sha256(args.legal_name_normalized \o <<"|">> \o args.country_code)
        /\ \A other \in CanonicalInputs : result.out # compute_snfei(other).value

\* C15: the hash string is injective on canonical inputs: a CanonicalInput
\* that differs in one of the four segments has another to_hash_string and
\* so another pre-image in compute_snfei, also when a segment holds '|'.
C15_HashStringInjective ==
    /\ call = "to_hash_string" =>
          \A other \in CanonicalInputs :
              other # args => to_hash_string(other) # result.out
    /\ call = "compute_snfei" =>
          \A other \in CanonicalInputs :
              other # args => compute_snfei(other) # result.out

HasPipe(canonical) ==
    \/ "|" \in SeqRange(canonical.legal_name_normalized)
    \/ "|" \in SeqRange(canonical.address_normalized)
    \/ "|" \in SeqRange(canonical.country_code)
    \/ "|" \in SeqRange(canonical.registration_date)

\* Among the inputs whose segments hold no '|', the hash string is injective.
C15_InjectiveWithoutPipes ==
    call = "to_hash_string" /\ ~HasPipe(args) =>
        \A other \in CanonicalInputs :
            other # args /\ ~HasPipe(other) => to_hash_string(other) # result.out

\* Name "a|b" with no address has the hash string of name "a", address "b|".
C15_Collision ==
    /\ call = "to_hash_string"
    /\ args.legal_name_normalized = <<"a", "|", "b">>
    /\ args.address_normalized = <<>>
    /\ result.out = to_hash_string([args EXCEPT !.legal_name_normalized = <<"a">>,
                                                !.address_normalized = <<"b", "|">>])

=============================================================================
